---------------------------- MODULE Spec2Model ----------------------------
(***************************************************************************)
(* A model of rmux's backend connection (package connection) and of the    *)
(* protocol helpers it is shipped with (package protocol):                 *)
(*   - Connection: Disconnect, ReconnectIfNecessary, SelectDatabase,       *)
(*     authenticate, CheckConnection, IsConnected;                         *)
(*   - ParseInt, GetCommand;                                               *)
(*   - copyBulkMessage, CopyMultiBulkMessage, CopyServerResponse.          *)
(* Bytes are their ASCII codes, byte strings are sequences of them.        *)
(***************************************************************************)
EXTENDS Integers, Sequences, FiniteSets, TLC

VARIABLES
    \* ---- Connection (connection.go 43-59) and its environment ----
    connection,     \* c.connection: the socket (its id), or Nil
    DatabaseId,     \* c.DatabaseId
    Reader,         \* c.Reader: the socket the bufio.Reader wraps, or Nil
    Writer,         \* c.Writer: the socket the FlexibleWriter wraps, or Nil
    authUser,       \* c.authUser
    authPassword,   \* c.authPassword
    open,           \* the sockets dialed by this Connection that are not closed
    dials,          \* how many sockets net.DialTimeout has handed out
    closes,         \* how many times connection.Close() was called
    metric,         \* how many times graphite.Increment("disconnect") was called
    lastCall,       \* the last method call: its inputs, what it did, what it returned
    acknowledged,   \* history: the socket dialed last and the id the server last
                    \* acknowledged a select of on it (0 while it acknowledged none)
    \* ---- protocol.GetCommand on a bufio.Reader ----
    buffered,       \* the bytes resident in the reader's buffer (what Peek returns)
    scanCalls,      \* how many times GetCommand ran on this buffer
    scanOut,        \* what the last GetCommand returned
    upstream,       \* the bytes the reader's source holds, not read into the buffer
    sourceReads,    \* how many times the reader read from its source
    \* ---- the copy functions: a source reader and a destination writer ----
    source,         \* the bytes still unread in the source (buffered or on the wire)
    dest,           \* the bytes written to the destination bufio.Writer
    flushedAt,      \* for each Flush of the destination, Len(dest) at that moment
    destOk,         \* whether the writer under the destination accepts bytes
    destErr,        \* the destination bufio.Writer's sticky error is set
    copyCalls,      \* how many copy calls ran on this source
    copyOut,        \* what the last copy call returned
    \* ---- protocol.ParseInt on its own ----
    parseIn,        \* the bytes ParseInt is given
    parseOut        \* what ParseInt returned for them

connVars == <<connection, DatabaseId, Reader, Writer, authUser, authPassword,
              open, dials, closes, metric, lastCall, acknowledged>>
scanVars == <<buffered, scanCalls, scanOut, upstream, sourceReads>>
copyVars == <<source, dest, flushedAt, destOk, destErr, copyCalls, copyOut>>
parseVars == <<parseIn, parseOut>>
vars == <<connVars, scanVars, copyVars, parseVars>>

-----------------------------------------------------------------------------
(* Bounds of the model. *)

\* Sockets one Connection may dial in a run.
MaxDials == 2
\* The database ids SelectDatabase is called with are 0..MaxDb.
MaxDb == 2
\* The longest command or argument of a generated request.
MaxBulk == 2
\* The longest buffer made of arbitrary bytes.
MaxShort == 3
\* How many times GetCommand is run on one buffer.
MaxScans == 2
\* The most elements of a generated multibulk reply.
MaxElems == 3
\* How many copy calls are run on one source.
MaxCopies == 2
\* The longest input of ParseInt made of arbitrary bytes.
MaxDigits == 3

-----------------------------------------------------------------------------
(* Part 1: Connection *)

\* A nil net.Conn / *bufio.Reader / *writer.FlexibleWriter.
Nil == 0

\* The zero value of DatabaseId, which Disconnect and a dial restore.
DefaultDatabase == 0

\* protocol.OK_RESPONSE, protocol.PONG_RESPONSE, and two other reply lines.
OK_RESPONSE == "+OK"
PONG_RESPONSE == "+PONG"
ReplyLines == {OK_RESPONSE, PONG_RESPONSE, "-ERR", ""}

\* protocol.SHORT_PING_COMMAND.
SHORT_PING_COMMAND == <<"PING">>

\* What Reader.ReadLine() returns: (line, isPrefix, err). With an error the line
\* is nil, written "" here.
Replies ==
    {[err |-> TRUE, isPrefix |-> FALSE, line |-> ""]}
        \cup [err : {FALSE}, isPrefix : BOOLEAN, line : ReplyLines]
NoReply == [err |-> FALSE, isPrefix |-> FALSE, line |-> "unread"]

\* What protocol.WriteLine(line, Writer, true) returns: nil, or a write, flush or
\* timeout error.
WriteOutcomes == {"ok", "err"}

\* What net.DialTimeout returns: a socket, or an error.
DialOutcomes == {"ok", "err"}

\* What connection.Read(b[:]) returns under the 10 microsecond deadline: a timeout
\* error, another error (io.EOF on a clean peer close), n = 0 without error, or
\* n > 0 bytes.
ProbeOutcomes == {"timeout", "eof", "zero", "data"}

\* I/O that is not reached has no outcome: a reply is read only after a write that
\* succeeded, and a write is attempted only on a socket that was dialed.
RepliesAfter(wr) == IF wr = "ok" THEN Replies ELSE {NoReply}
WritesAfter(dial) == IF dial = "ok" THEN WriteOutcomes ELSE {"none"}

\* The configured credentials: "" is "not configured".
Users == {"", "u"}
Passwords == {"", "p"}

\* The Connection and the part of its environment its methods act on.
Cur ==
    [connection |-> connection, DatabaseId |-> DatabaseId, Reader |-> Reader,
     Writer |-> Writer, open |-> open, dials |-> dials, closes |-> closes,
     metric |-> metric]

\* The methods leave the configuration alone.
Becomes(st) ==
    /\ connection' = st.connection
    /\ DatabaseId' = st.DatabaseId
    /\ Reader' = st.Reader
    /\ Writer' = st.Writer
    /\ open' = st.open
    /\ dials' = st.dials
    /\ closes' = st.closes
    /\ metric' = st.metric
    /\ UNCHANGED <<authUser, authPassword>>

\* The record of a call: the method, its argument, the outcomes of the I/O it
\* performed ("none" for I/O it did not reach), the command lines it wrote, and
\* what it returned ("nil" / "error" for an error result, "true" / "false" for a
\* bool).
\* `pre` is the Connection as the call found it and `prevOp` the method called
\* before this one.
Call(op, arg, probe, dial, wr, reply, sent, ret) ==
    [op |-> op, arg |-> arg, probe |-> probe, dial |-> dial, wr |-> wr,
     reply |-> reply, sent |-> sent, ret |-> ret, pre |-> Cur,
     prevOp |-> lastCall.op]

\* Disconnect with the Reader left in place.
DoDisconnectKeepsReader(st) ==
    LET had == st.connection # Nil IN
    [st EXCEPT !.open = IF had THEN @ \ {st.connection} ELSE @,
               !.closes = IF had THEN @ + 1 ELSE @,
               !.metric = IF had THEN @ + 1 ELSE @,
               !.connection = Nil,
               !.DatabaseId = DefaultDatabase,
               !.Writer = Nil]

\* Disconnect with the metric incremented outside the nil check.
DoDisconnectAlwaysCounts(st) ==
    LET had == st.connection # Nil IN
    [st EXCEPT !.open = IF had THEN @ \ {st.connection} ELSE @,
               !.closes = IF had THEN @ + 1 ELSE @,
               !.metric = @ + 1,
               !.connection = Nil,
               !.DatabaseId = DefaultDatabase,
               !.Reader = Nil,
               !.Writer = Nil]

\* Disconnect without the reset of DatabaseId.
DoDisconnectKeepsDatabaseId(st) ==
    LET had == st.connection # Nil IN
    [st EXCEPT !.open = IF had THEN @ \ {st.connection} ELSE @,
               !.closes = IF had THEN @ + 1 ELSE @,
               !.metric = IF had THEN @ + 1 ELSE @,
               !.connection = Nil,
               !.Reader = Nil,
               !.Writer = Nil]

\* Disconnect dropping the socket without closing it.
DoDisconnectWithoutClose(st) ==
    [st EXCEPT !.connection = Nil,
               !.DatabaseId = DefaultDatabase,
               !.Reader = Nil,
               !.Writer = Nil]

\* func (c *Connection) Disconnect()
DoDisconnect(st) ==
    LET had == st.connection # Nil IN
    [st EXCEPT !.open = IF had THEN @ \ {st.connection} ELSE @,
               !.closes = IF had THEN @ + 1 ELSE @,
               !.metric = IF had THEN @ + 1 ELSE @,
               !.connection = Nil,
               !.DatabaseId = DefaultDatabase,
               !.Reader = Nil,
               !.Writer = Nil]

\* IsConnected taking bytes read by the probe for a failure.
DoIsConnectedDataIsFailure(st, probe) ==
    IF st.connection = Nil
    THEN [ret |-> FALSE, probe |-> "none"]
    ELSE [ret |-> (probe \in {"timeout", "zero"}), probe |-> probe]

\* func (c *Connection) IsConnected() bool, given what the probe read returns.
\* The result also says whether the read was issued.
DoIsConnected(st, probe) ==
    IF st.connection = Nil
    THEN [ret |-> FALSE, probe |-> "none"]
    ELSE IF probe \in {"timeout", "eof"}
         THEN [ret |-> (probe = "timeout"), probe |-> probe]
         ELSE [ret |-> TRUE, probe |-> probe]

\* The AUTH command authenticate formats.
AuthCommand(user, password) ==
    IF user # "" THEN <<"AUTH", user, password>> ELSE <<"AUTH", password>>

\* authenticate reading the reply without comparing it with +OK.
DoAuthenticateAnyReply(st, user, password, wr, reply) ==
    IF st.connection = Nil
    THEN [st |-> st, wr |-> "none", reply |-> NoReply, sent |-> <<>>, ret |-> "error"]
    ELSE IF password = ""
    THEN [st |-> st, wr |-> "none", reply |-> NoReply, sent |-> <<>>, ret |-> "nil"]
    ELSE IF wr = "err"
    THEN [st |-> st, wr |-> wr, reply |-> NoReply, sent |-> <<>>, ret |-> "error"]
    ELSE IF reply.err \/ reply.isPrefix
    THEN [st |-> DoDisconnect(st), wr |-> wr, reply |-> reply,
          sent |-> <<AuthCommand(user, password)>>, ret |-> "error"]
    ELSE [st |-> st, wr |-> wr, reply |-> reply,
          sent |-> <<AuthCommand(user, password)>>, ret |-> "nil"]

\* func (this *Connection) authenticate() (err error)
DoAuthenticate(st, user, password, wr, reply) ==
    IF st.connection = Nil
    THEN [st |-> st, wr |-> "none", reply |-> NoReply, sent |-> <<>>, ret |-> "error"]
    ELSE IF password = ""
    THEN [st |-> st, wr |-> "none", reply |-> NoReply, sent |-> <<>>, ret |-> "nil"]
    ELSE IF wr = "err"
    THEN [st |-> st, wr |-> wr, reply |-> NoReply, sent |-> <<>>, ret |-> "error"]
    ELSE IF reply.err \/ reply.isPrefix \/ reply.line # OK_RESPONSE
    THEN [st |-> DoDisconnect(st), wr |-> wr, reply |-> reply,
          sent |-> <<AuthCommand(user, password)>>, ret |-> "error"]
    ELSE [st |-> st, wr |-> wr, reply |-> reply,
          sent |-> <<AuthCommand(user, password)>>, ret |-> "nil"]

\* ReconnectIfNecessary resetting DatabaseId before it probes the socket.
DoReconnectIfNecessaryResetsDatabase(st, user, password, probe, dial, wr, reply) ==
    LET up == DoIsConnected(st, probe) IN
    IF up.ret
    THEN [st |-> [st EXCEPT !.DatabaseId = DefaultDatabase],
          call |-> Call("ReconnectIfNecessary", 0, up.probe, "none",
                        "none", NoReply, <<>>, "nil")]
    ELSE LET st1 == DoDisconnect(st) IN
         IF dial = "err"
         THEN [st |-> [st1 EXCEPT !.connection = Nil],
               call |-> Call("ReconnectIfNecessary", 0, up.probe, dial, "none",
                             NoReply, <<>>, "error")]
         ELSE LET sock == st1.dials + 1
                  st2 == [st1 EXCEPT !.connection = sock,
                                     !.dials = sock,
                                     !.open = @ \cup {sock},
                                     !.DatabaseId = DefaultDatabase,
                                     !.Writer = sock,
                                     !.Reader = sock]
                  a == DoAuthenticate(st2, user, password, wr, reply)
              IN [st |-> a.st,
                  call |-> Call("ReconnectIfNecessary", 0, up.probe, dial, a.wr,
                                a.reply, a.sent, a.ret)]

\* func (c *Connection) ReconnectIfNecessary() (err error)
DoReconnectIfNecessary(st, user, password, probe, dial, wr, reply) ==
    LET up == DoIsConnected(st, probe) IN
    IF up.ret
    THEN [st |-> st, call |-> Call("ReconnectIfNecessary", 0, up.probe, "none",
                                   "none", NoReply, <<>>, "nil")]
    ELSE LET st1 == DoDisconnect(st) IN
         IF dial = "err"
         THEN [st |-> [st1 EXCEPT !.connection = Nil],
               call |-> Call("ReconnectIfNecessary", 0, up.probe, dial, "none",
                             NoReply, <<>>, "error")]
         ELSE LET sock == st1.dials + 1
                  st2 == [st1 EXCEPT !.connection = sock,
                                     !.dials = sock,
                                     !.open = @ \cup {sock},
                                     !.DatabaseId = DefaultDatabase,
                                     !.Writer = sock,
                                     !.Reader = sock]
                  a == DoAuthenticate(st2, user, password, wr, reply)
              IN [st |-> a.st,
                  call |-> Call("ReconnectIfNecessary", 0, up.probe, dial, a.wr,
                                a.reply, a.sent, a.ret)]

\* SelectDatabase returning on a bad reply without calling Disconnect.
DoSelectDatabaseNoDisconnect(st, id, wr, reply) ==
    IF st.connection = Nil
    THEN [st |-> st, call |-> Call("SelectDatabase", id, "none", "none", "none",
                                   NoReply, <<>>, "error")]
    ELSE IF wr = "err"
    THEN [st |-> st, call |-> Call("SelectDatabase", id, "none", "none", wr,
                                   NoReply, <<>>, "error")]
    ELSE IF reply.err \/ reply.isPrefix \/ reply.line # OK_RESPONSE
    THEN [st |-> st,
          call |-> Call("SelectDatabase", id, "none", "none", wr, reply,
                        <<<<"select", id>>>>, "error")]
    ELSE [st |-> [st EXCEPT !.DatabaseId = id],
          call |-> Call("SelectDatabase", id, "none", "none", wr, reply,
                        <<<<"select", id>>>>, "nil")]

\* SelectDatabase recording the id as soon as the select is on its way, before
\* the reply is read.
DoSelectDatabaseSetsEarly(st, id, wr, reply) ==
    IF st.connection = Nil
    THEN [st |-> st, call |-> Call("SelectDatabase", id, "none", "none", "none",
                                   NoReply, <<>>, "error")]
    ELSE IF wr = "err"
    THEN [st |-> [st EXCEPT !.DatabaseId = id],
          call |-> Call("SelectDatabase", id, "none", "none", wr,
                        NoReply, <<>>, "error")]
    ELSE IF reply.err \/ reply.isPrefix \/ reply.line # OK_RESPONSE
    THEN [st |-> DoDisconnect(st),
          call |-> Call("SelectDatabase", id, "none", "none", wr, reply,
                        <<<<"select", id>>>>, "error")]
    ELSE [st |-> [st EXCEPT !.DatabaseId = id],
          call |-> Call("SelectDatabase", id, "none", "none", wr, reply,
                        <<<<"select", id>>>>, "nil")]

\* func (this *Connection) SelectDatabase(DatabaseId int) (err error)
DoSelectDatabase(st, id, wr, reply) ==
    IF st.connection = Nil
    THEN [st |-> st, call |-> Call("SelectDatabase", id, "none", "none", "none",
                                   NoReply, <<>>, "error")]
    ELSE IF wr = "err"
    THEN [st |-> st, call |-> Call("SelectDatabase", id, "none", "none", wr,
                                   NoReply, <<>>, "error")]
    ELSE IF reply.err \/ reply.isPrefix \/ reply.line # OK_RESPONSE
    THEN [st |-> DoDisconnect(st),
          call |-> Call("SelectDatabase", id, "none", "none", wr, reply,
                        <<<<"select", id>>>>, "error")]
    ELSE [st |-> [st EXCEPT !.DatabaseId = id],
          call |-> Call("SelectDatabase", id, "none", "none", wr, reply,
                        <<<<"select", id>>>>, "nil")]

\* CheckConnection comparing the line with +PONG without looking at isPrefix.
DoCheckConnectionAcceptsPrefix(st, wr, reply) ==
    IF st.connection = Nil
    THEN [st |-> st, call |-> Call("CheckConnection", 0, "none", "none", "none",
                                   NoReply, <<>>, "false")]
    ELSE IF wr = "err"
    THEN [st |-> DoDisconnect(st),
          call |-> Call("CheckConnection", 0, "none", "none", wr, NoReply,
                        <<>>, "false")]
    ELSE IF ~reply.err /\ reply.line = PONG_RESPONSE
    THEN [st |-> st, call |-> Call("CheckConnection", 0, "none", "none", wr,
                                   reply, <<SHORT_PING_COMMAND>>, "true")]
    ELSE [st |-> DoDisconnect(st),
          call |-> Call("CheckConnection", 0, "none", "none", wr, reply,
                        <<SHORT_PING_COMMAND>>, "false")]

\* func (myConnection *Connection) CheckConnection() bool
DoCheckConnection(st, wr, reply) ==
    IF st.connection = Nil
    THEN [st |-> st, call |-> Call("CheckConnection", 0, "none", "none", "none",
                                   NoReply, <<>>, "false")]
    ELSE IF wr = "err"
    THEN [st |-> DoDisconnect(st),
          call |-> Call("CheckConnection", 0, "none", "none", wr, NoReply,
                        <<>>, "false")]
    ELSE IF ~reply.err /\ ~reply.isPrefix /\ reply.line = PONG_RESPONSE
    THEN [st |-> st, call |-> Call("CheckConnection", 0, "none", "none", wr,
                                   reply, <<SHORT_PING_COMMAND>>, "true")]
    ELSE [st |-> DoDisconnect(st),
          call |-> Call("CheckConnection", 0, "none", "none", wr, reply,
                        <<SHORT_PING_COMMAND>>, "false")]

\* What the server has acknowledged, as the outcomes of a call's I/O tell: a dial
\* hands out the next socket, on which nothing is selected yet; a select that was
\* written and answered with the complete line +OK is acknowledged on the socket
\* it was written to.
NoSelection == [socket |-> Nil, id |-> DefaultDatabase]
Acknowledges(call) ==
    IF call.op = "ReconnectIfNecessary" /\ call.dial = "ok"
    THEN [socket |-> call.pre.dials + 1, id |-> DefaultDatabase]
    ELSE IF /\ call.op = "SelectDatabase"
            /\ call.pre.connection # Nil
            /\ call.wr = "ok"
            /\ ~call.reply.err
            /\ ~call.reply.isPrefix
            /\ call.reply.line = OK_RESPONSE
    THEN [socket |-> call.pre.connection, id |-> call.arg]
    ELSE acknowledged

\* NewConnection: static configuration only, no dial.
NewConnection ==
    /\ connection = Nil
    /\ DatabaseId = DefaultDatabase
    /\ Reader = Nil
    /\ Writer = Nil
    /\ authUser \in Users
    /\ authPassword \in Passwords
    /\ open = {}
    /\ dials = 0
    /\ closes = 0
    /\ metric = 0
    /\ lastCall = [op |-> "NewConnection", arg |-> 0, probe |-> "none",
                   dial |-> "none", wr |-> "none", reply |-> NoReply,
                   sent |-> <<>>, ret |-> "nil",
                   pre |-> [connection |-> Nil, DatabaseId |-> DefaultDatabase,
                            Reader |-> Nil, Writer |-> Nil, open |-> {},
                            dials |-> 0, closes |-> 0, metric |-> 0],
                   prevOp |-> "none"]
    /\ acknowledged = NoSelection

Disconnect ==
    /\ UNCHANGED <<scanVars, copyVars, parseVars>>
    /\ \E st \in {DoDisconnect(Cur)} : Becomes(st)
    /\ lastCall' = Call("Disconnect", 0, "none", "none", "none", NoReply, <<>>, "nil")
    /\ UNCHANGED acknowledged

IsConnected ==
    \E probe \in ProbeOutcomes :
        \E r \in {DoIsConnected(Cur, probe)} :
        /\ UNCHANGED <<scanVars, copyVars, parseVars>>
        /\ Becomes(Cur)
        /\ lastCall' = Call("IsConnected", 0, r.probe, "none", "none", NoReply, <<>>,
                            IF r.ret THEN "true" ELSE "false")
        /\ UNCHANGED acknowledged

ReconnectIfNecessary ==
    \E probe \in ProbeOutcomes, dial \in DialOutcomes :
      \E wr \in WritesAfter(dial) : \E reply \in RepliesAfter(wr) :
        \E r \in {DoReconnectIfNecessary(Cur, authUser, authPassword, probe,
                                        dial, wr, reply)} :
        /\ r.st.dials <= MaxDials
        /\ UNCHANGED <<scanVars, copyVars, parseVars>>
        /\ Becomes(r.st)
        /\ lastCall' = r.call
        /\ acknowledged' = Acknowledges(r.call)

SelectDatabase ==
    \E id \in 0..MaxDb, wr \in WriteOutcomes : \E reply \in RepliesAfter(wr) :
        \E r \in {DoSelectDatabase(Cur, id, wr, reply)} :
        /\ UNCHANGED <<scanVars, copyVars, parseVars>>
        /\ Becomes(r.st)
        /\ lastCall' = r.call
        /\ acknowledged' = Acknowledges(r.call)

CheckConnection ==
    \E wr \in WriteOutcomes : \E reply \in RepliesAfter(wr) :
        \E r \in {DoCheckConnection(Cur, wr, reply)} :
        /\ UNCHANGED <<scanVars, copyVars, parseVars>>
        /\ Becomes(r.st)
        /\ lastCall' = r.call
        /\ acknowledged' = Acknowledges(r.call)

-----------------------------------------------------------------------------
(* Part 2: protocol.ParseInt and protocol.GetCommand *)

\* The bytes the model uses, as ASCII codes.
LF == 10
CR == 13
DOLLAR == 36
STAR == 42
MINUS == 45
ZERO == 48
COLON == 58
UPPER_G == 71
UPPER_Z == 90
LOWER_A == 97
\* A byte is a uint8: arithmetic on it wraps at 256.
BYTE_MOD == 256
\* The distance GetCommand adds to a byte to lowercase it.
CASE_OFFSET == 32

\* protocol.REDIS_NEWLINE
REDIS_NEWLINE == <<CR, LF>>

\* Go's s[lo:hi] on a slice (0-based, hi excluded); the callers check the range.
Slice(s, lo, hi) == SubSeq(s, lo + 1, hi)

\* bytes.IndexByte(s, c): the 0-based index of the first c in s, or -1.
IndexByte(s, c) ==
    IF \E i \in 1..Len(s) : s[i] = c
    THEN (CHOOSE i \in 1..Len(s) : s[i] = c /\ \A j \in 1..(i - 1) : s[j] # c) - 1
    ELSE -1

\* A []byte result: nil, or a slice of the buffer.
NilBytes == [nil |-> TRUE, bytes |-> <<>>]
Bytes(b) == [nil |-> FALSE, bytes |-> b]

\* Go's int, the type of ParseInt's result: 64 bits in two's complement on the
\* 64-bit builds, held as INT_LIMBS limbs of 16 bits, the lowest first. Arithmetic
\* on it wraps around without any error.
LIMB == 65536
INT_LIMBS == 4
ZeroInt == [i \in 1..INT_LIMBS |-> 0]

\* x * m + a on limbs; what is carried out of the highest limb is lost.
RECURSIVE MulAdd(_, _, _)
MulAdd(x, m, a) ==
    IF x = <<>>
    THEN <<>>
    ELSE LET t == Head(x) * m + a
         IN <<t % LIMB>> \o MulAdd(Tail(x), m, t \div LIMB)

\* The integer an int stands for, for the ints of less than 32 bits: the lengths
\* and counts of the requests and replies of this model are of that kind.
RECURSIVE Magnitude(_)
Magnitude(x) ==
    IF x = <<>> \/ (\A i \in 1..Len(x) : x[i] = 0)
    THEN 0
    ELSE Head(x) + LIMB * Magnitude(Tail(x))
IntValue(x) ==
    IF x[Len(x)] < LIMB \div 2
    THEN Magnitude(x)
    ELSE -(Magnitude([i \in 1..Len(x) |-> LIMB - 1 - x[i]]) + 1)

\* func ParseInt(response []byte) (length int, err error)
\* The named result keeps the digits read before an invalid byte.
RECURSIVE ParseIntFrom(_, _, _)
ParseIntFrom(response, i, length) ==
    IF i > Len(response)
    THEN [length |-> length, err |-> "nil"]
    ELSE LET b == (response[i] - ZERO) % BYTE_MOD IN
         IF b > 9
         THEN [length |-> length, err |-> "ERROR_INVALID_INT"]
         ELSE ParseIntFrom(response, i + 1, MulAdd(length, 10, b))

\* A lowercasing loop that changes nothing.
LowerByteNever(value) == value

\* ParseInt that skips the bytes that are no digits instead of failing.
ParseIntLenient(response) ==
    ParseIntFrom(SelectSeq(response, LAMBDA b : (b - ZERO) % BYTE_MOD <= 9), 1,
                 ZeroInt)

ParseInt(response) == ParseIntFrom(response, 1, ZeroInt)

\* The loop of GetCommand that lowercases the command in place: every byte that
\* is <= 'Z' gets 32 added.
LowerByte(value) == IF value <= UPPER_Z THEN value + CASE_OFFSET ELSE value

\* contents with the bytes at 0-based positions lo..hi-1 passed through LowerByte.
LowerInPlace(contents, lo, hi) ==
    [i \in 1..Len(contents) |->
        IF lo < i /\ i <= hi THEN LowerByte(contents[i]) ELSE contents[i]]

\* What a GetCommand call yields: a panic, or (command, firstArgument, err); and
\* the reader's buffer afterwards, which `command` aliases.
Scanned(panic, command, firstArgument, err, contents) ==
    [panic |-> panic, command |-> command, firstArgument |-> firstArgument,
     err |-> err, contents |-> contents]

\* The check GetCommand makes before slicing an element out: the payload that
\* starts at `start`, plus its CRLF, reaches beyond the buffered bytes.
UnderLengthNoNewline(start, length, contents) == start + length > Len(contents)

UnderLength(start, length, contents) == start + length + 2 > Len(contents)

\* func GetCommand(source *bufio.Reader) (command, firstArgument []byte, err error)
\* on contents = source.Peek(source.Buffered()), which cannot fail.
GetCommand(contents) ==
    LET nextLine0 == IndexByte(contents, CR) IN
    IF nextLine0 = -1
    THEN Scanned(FALSE, NilBytes, NilBytes, "ERROR_MULTIBULK_FORMAT_REQUIRED", contents)
    ELSE IF 1 > nextLine0
    THEN \* contents[1:0]: slice bounds out of range
         Scanned(TRUE, NilBytes, NilBytes, "nil", contents)
    ELSE
    LET head == ParseInt(Slice(contents, 1, nextLine0))
        messageLength == IntValue(head.length)
        nextLine == nextLine0 + 2
    IN
    IF head.err # "nil"
    THEN Scanned(FALSE, NilBytes, NilBytes, head.err, contents)
    ELSE IF UnderLength(nextLine, messageLength, contents)
    THEN Scanned(FALSE, NilBytes, NilBytes, "ERROR_MULTIBULK_FORMAT_REQUIRED", contents)
    ELSE
    LET lowered == LowerInPlace(contents, nextLine, nextLine + messageLength)
        command == Bytes(Slice(lowered, nextLine, nextLine + messageLength))
        argStart == nextLine + messageLength + 2
    IN
    IF argStart = Len(contents)
    THEN Scanned(FALSE, command, NilBytes, "nil", lowered)
    ELSE
    LET found == IndexByte(Slice(lowered, argStart, Len(lowered)), CR)
        argLine == found + argStart
    IN
    IF found = -1
    THEN Scanned(FALSE, command, NilBytes, "ERROR_MULTIBULK_FORMAT_REQUIRED", lowered)
    ELSE IF argStart + 1 > argLine
    THEN \* contents[messageLength+1 : nextLine] with nextLine = messageLength
         Scanned(TRUE, NilBytes, NilBytes, "nil", lowered)
    ELSE
    LET arg == ParseInt(Slice(lowered, argStart + 1, argLine))
        argLength == IntValue(arg.length)
        argBody == argLine + 2
    IN
    IF arg.err # "nil"
    THEN Scanned(FALSE, command, NilBytes, arg.err, lowered)
    ELSE IF UnderLength(argBody, argLength, lowered)
    THEN Scanned(FALSE, command, NilBytes, "ERROR_MULTIBULK_FORMAT_REQUIRED", lowered)
    ELSE Scanned(FALSE, command,
                 Bytes(Slice(lowered, argBody, argBody + argLength)), "nil", lowered)

\* ---- the buffers GetCommand is run on ----

\* The bytes of generated commands, arguments and arbitrary buffers.
CommandBytes == {UPPER_G, LOWER_A, ZERO + 1}
ArgumentBytes == {UPPER_G, LOWER_A}
ShortBytes == {CR, LF, DOLLAR, STAR, ZERO + 1, UPPER_G, LOWER_A}

SeqsUpTo(S, n) == UNION {[1..k -> S] : k \in 0..n}
Prefixes(s) == {SubSeq(s, 1, k) : k \in 0..Len(s)}

\* What a client writes for a length or a count.
Decimal(n) ==
    IF n < 10 THEN <<ZERO + n>> ELSE <<ZERO + (n \div 10), ZERO + (n % 10)>>

\* $<n>\r\n<payload>\r\n and *<count>\r\n as a client frames them.
BulkHeader(n) == <<DOLLAR>> \o Decimal(n) \o REDIS_NEWLINE
BulkElement(n, payload) == BulkHeader(n) \o payload \o REDIS_NEWLINE
MultiBulkHeader(count) == <<STAR>> \o Decimal(count) \o REDIS_NEWLINE

Commands == SeqsUpTo(CommandBytes, MaxBulk)
Arguments == SeqsUpTo(ArgumentBytes, MaxBulk)

\* A request without its *<count> line: the command, then at most one argument.
RequestBodies ==
    {BulkElement(Len(c), c) : c \in Commands}
        \cup {BulkElement(Len(c), c) \o BulkElement(Len(a), a) :
                c \in Commands, a \in Arguments}

\* Requests as they are buffered with and without their *<count> line, whole or
\* cut anywhere (the rest has not arrived).
Requests ==
    RequestBodies \cup {MultiBulkHeader(k) \o b : k \in 1..2, b \in RequestBodies}
ArrivingRequests == UNION {Prefixes(r) : r \in Requests}

\* Elements whose declared length is not their payload's.
DeclaredLengths == 0..(MaxBulk + 1)
MisdeclaredRequests ==
    {BulkElement(n, c) : n \in DeclaredLengths, c \in Commands}
        \cup {BulkElement(n, c) \o BulkElement(m, a) :
                n \in DeclaredLengths, c \in Commands,
                m \in DeclaredLengths, a \in Arguments}

\* Arbitrary bytes, alone and after a complete command element.
ShortBuffers == SeqsUpTo(ShortBytes, MaxShort)
TailedBuffers == {BulkElement(1, <<UPPER_G>>) \o t : t \in ShortBuffers}

ScanInputs ==
    ArrivingRequests \cup MisdeclaredRequests \cup ShortBuffers \cup TailedBuffers

\* ---- the reader and the calls on it ----

ConnIdle ==
    /\ connection = Nil
    /\ DatabaseId = DefaultDatabase
    /\ Reader = Nil
    /\ Writer = Nil
    /\ authUser = ""
    /\ authPassword = ""
    /\ open = {}
    /\ dials = 0
    /\ closes = 0
    /\ metric = 0
    /\ lastCall = [op |-> "NewConnection", arg |-> 0, probe |-> "none",
                   dial |-> "none", wr |-> "none", reply |-> NoReply,
                   sent |-> <<>>, ret |-> "nil",
                   pre |-> [connection |-> Nil, DatabaseId |-> DefaultDatabase,
                            Reader |-> Nil, Writer |-> Nil, open |-> {},
                            dials |-> 0, closes |-> 0, metric |-> 0],
                   prevOp |-> "none"]
    /\ acknowledged = NoSelection

\* The *bufio.Reader GetCommand is given: buf, the bytes it has read from its
\* source and not handed out yet (from its read position on); upstream, the bytes
\* the source would deliver at the next read; reads, the reads made on the source.
CurReader == [buf |-> buffered, upstream |-> upstream, reads |-> sourceReads]

\* bufio.Reader.Buffered
Buffered(rd) == Len(rd.buf)

\* bufio.Reader.Peek(n): the next n bytes, the read position staying where it is.
\* Only when fewer than n bytes are buffered does it read from the source, and it
\* returns what it has with an error when the source ends before n bytes.
Peek(rd, n) ==
    IF n <= Len(rd.buf)
    THEN [rd |-> rd, bytes |-> SubSeq(rd.buf, 1, n), err |-> "nil"]
    ELSE LET filled == [rd EXCEPT !.buf = @ \o rd.upstream,
                                  !.upstream = <<>>,
                                  !.reads = @ + 1]
         IN IF n <= Len(filled.buf)
            THEN [rd |-> filled, bytes |-> SubSeq(filled.buf, 1, n), err |-> "nil"]
            ELSE [rd |-> filled, bytes |-> filled.buf, err |-> "EOF"]

\* The bytes of the reader's buffer after a call that worked in place on the
\* first bytes of it.
Overlay(buf, bytes) == bytes \o SubSeq(buf, Len(bytes) + 1, Len(buf))

\* GetCommand peeking at one byte more than is buffered.
GetCommandOnPeekingBeyond(rd) ==
    LET peeked == Peek(rd, Buffered(rd) + 1) IN
    IF peeked.err # "nil"
    THEN [rd |-> peeked.rd,
          out |-> Scanned(FALSE, NilBytes, NilBytes, peeked.err, peeked.rd.buf)]
    ELSE LET out == GetCommand(peeked.bytes) IN
         [rd |-> [peeked.rd EXCEPT !.buf = Overlay(@, out.contents)], out |-> out]

\* GetCommand from its first line: contents, err := source.Peek(source.Buffered()),
\* the return on a Peek error, and the scan of the contents.
GetCommandOn(rd) ==
    LET peeked == Peek(rd, Buffered(rd)) IN
    IF peeked.err # "nil"
    THEN [rd |-> peeked.rd,
          out |-> Scanned(FALSE, NilBytes, NilBytes, peeked.err, peeked.rd.buf)]
    ELSE LET out == GetCommand(peeked.bytes) IN
         [rd |-> [peeked.rd EXCEPT !.buf = Overlay(@, out.contents)], out |-> out]

\* No GetCommand has run yet.
NoScan ==
    [input |-> <<>>, out |-> Scanned(FALSE, NilBytes, NilBytes, "nil", <<>>),
     upstream |-> <<>>, reads |-> 0]

\* What the source may hold when GetCommand is called: nothing, or more bytes of
\* the request.
Upstreams == {<<>>, REDIS_NEWLINE}

\* One GetCommand call on the reader. A panic ends the goroutine: nothing is
\* called after it.
CallGetCommand ==
    /\ scanCalls < MaxScans
    /\ ~scanOut.out.panic
    /\ \E r \in {GetCommandOn(CurReader)} :
        /\ buffered' = r.rd.buf
        /\ upstream' = r.rd.upstream
        /\ sourceReads' = r.rd.reads
        /\ scanOut' = [input |-> buffered, out |-> r.out,
                       upstream |-> upstream, reads |-> sourceReads]
    /\ scanCalls' = scanCalls + 1
    /\ UNCHANGED <<connVars, copyVars, parseVars>>

\* ---- ParseInt on its own ----

\* The byte string of a sequence of digits 0..9.
Digits(ds) == [i \in 1..Len(ds) |-> ZERO + ds[i]]

\* The bytes of short inputs: digits, a letter, a sign, the byte below '0' and the
\* byte above '9'.
ParseBytes ==
    {ZERO, ZERO + 1, ZERO + 2, ZERO + 3, ZERO + 9, LOWER_A, MINUS, ZERO - 1, COLON}

\* Digit strings around the largest int: 2^63 - 1, 2^63, 2^64 and 2^64 + 123.
LongDigitStrings ==
    {Digits(<<9, 2, 2, 3, 3, 7, 2, 0, 3, 6, 8, 5, 4, 7, 7, 5, 8, 0, 7>>),
     Digits(<<9, 2, 2, 3, 3, 7, 2, 0, 3, 6, 8, 5, 4, 7, 7, 5, 8, 0, 8>>),
     Digits(<<1, 8, 4, 4, 6, 7, 4, 4, 0, 7, 3, 7, 0, 9, 5, 5, 1, 6, 1, 6>>),
     Digits(<<1, 8, 4, 4, 6, 7, 4, 4, 0, 7, 3, 7, 0, 9, 5, 5, 1, 7, 3, 9>>)}

ParseInputs == SeqsUpTo(ParseBytes, MaxDigits) \cup LongDigitStrings

\* ParseInt has not been called.
NoParse == [called |-> FALSE, length |-> ZeroInt, err |-> "nil"]

CallParseInt ==
    /\ ~parseOut.called
    /\ \E r \in {ParseInt(parseIn)} :
        parseOut' = [called |-> TRUE, length |-> r.length, err |-> r.err]
    /\ UNCHANGED <<parseIn, connVars, scanVars, copyVars>>

-----------------------------------------------------------------------------
(* Part 3: copyBulkMessage, CopyMultiBulkMessage, CopyServerResponse *)

\* protocol.ERR_RESPONSE, the null bulk.
ERR_RESPONSE == <<DOLLAR, MINUS, ZERO + 1>>

\* The source reader and the destination writer of a copy.
\*   src: the bytes not yet read, then end of input;
\*   dst: the bytes written to the bufio.Writer; flushedAt: its Flush calls;
\*   ok: the writer beneath accepts bytes; werr: the bufio.Writer's sticky error.
CurCopy ==
    [src |-> source, dst |-> dest, flushedAt |-> flushedAt, ok |-> destOk,
     werr |-> destErr]

\* bufio.Reader.ReadLine on the source: the bytes up to the next '\n' without
\* the "\n" or "\r\n"; what is left when the input ends without one; io.EOF when
\* nothing is left. Lines stay below the reader's buffer size, so isPrefix,
\* which the copy functions drop, is never set.
ReadLine(st) ==
    LET at == IndexByte(st.src, LF) IN
    IF st.src = <<>>
    THEN [st |-> st, line |-> <<>>, err |-> "EOF"]
    ELSE IF at = -1
    THEN [st |-> [st EXCEPT !.src = <<>>], line |-> st.src, err |-> "nil"]
    ELSE LET drop == IF at >= 1 /\ st.src[at] = CR THEN 1 ELSE 0 IN
         [st |-> [st EXCEPT !.src = Slice(st.src, at + 1, Len(st.src))],
          line |-> Slice(st.src, 0, at - drop), err |-> "nil"]

\* bufio.Reader.ReadByte on the source.
ReadByte(st) ==
    IF st.src = <<>>
    THEN [st |-> st, char |-> 0, err |-> "EOF"]
    ELSE [st |-> [st EXCEPT !.src = Tail(st.src)], char |-> Head(st.src),
          err |-> "nil"]

\* bufio.Writer.Write of a few bytes: buffered, unless the sticky error is set.
Write(st, bytes) ==
    IF st.werr
    THEN [st |-> st, err |-> "write error"]
    ELSE [st |-> [st EXCEPT !.dst = @ \o bytes], err |-> "nil"]

\* The bytes written since the last Flush (every Flush before a failed one
\* succeeded, and nothing is written after a failed one).
Unflushed(st) ==
    Len(st.dst) - (IF st.flushedAt = <<>> THEN 0
                   ELSE st.flushedAt[Len(st.flushedAt)])

\* bufio.Writer.Flush: returns the sticky error if set, returns nil if nothing is
\* buffered, and otherwise hands the buffered bytes to the writer beneath, whose
\* failure sets the sticky error.
Flush(st) ==
    LET called == [st EXCEPT !.flushedAt = Append(@, Len(st.dst))] IN
    IF st.werr \/ (Unflushed(st) > 0 /\ ~st.ok)
    THEN [st |-> [called EXCEPT !.werr = TRUE], err |-> "write error"]
    ELSE [st |-> called, err |-> "nil"]

\* io.CopyN(destination, source, n): reads up to n bytes and writes them; io.EOF
\* when the source ends before n bytes.
CopyN(st, n) ==
    LET have == IF Len(st.src) < n THEN Len(st.src) ELSE n
        w == Write(st, SubSeq(st.src, 1, have))
    IN IF w.err # "nil"
       THEN [st |-> [st EXCEPT !.src = Slice(st.src, have, Len(st.src))],
             written |-> 0, err |-> w.err]
       ELSE [st |-> [w.st EXCEPT !.src = Slice(st.src, have, Len(st.src))],
             written |-> have,
             err |-> IF have < n THEN "EOF" ELSE "nil"]

\* func writeLine(line []byte, destination *bufio.Writer) (err error)
writeLine(line, st) ==
    LET w == Write(st, line) IN
    IF w.err # "nil" THEN w ELSE Write(w.st, REDIS_NEWLINE)

\* protocol.BUFFER_SIZE, the size of the throw-away buffer REFUSE_HEAP.
BUFFER_SIZE == 4096

\* bufio.Reader.Read into a slice of k bytes (k > 0): io.EOF when nothing is
\* left, and otherwise the bytes at hand, k at most. A Read that delivers fewer
\* sends the loop below round once more, and the same bytes are consumed.
Read(st, k) ==
    IF st.src = <<>>
    THEN [st |-> st, copied |-> 0, err |-> "EOF"]
    ELSE LET have == IF Len(st.src) < k THEN Len(st.src) ELSE k
         IN [st |-> [st EXCEPT !.src = Slice(st.src, have, Len(st.src))],
             copied |-> have, err |-> "nil"]

\* The loop of ignoreBulkMessage: reads until n bytes are gone; `returned` says
\* that it left the function (read error, or nothing copied) with err.
RECURSIVE IgnoreBytes(_, _)
IgnoreBytes(n, st) ==
    IF n <= 0
    THEN [st |-> st, err |-> "nil", returned |-> FALSE]
    ELSE LET r == Read(st, IF n > BUFFER_SIZE THEN BUFFER_SIZE ELSE n) IN
         IF r.err # "nil" \/ r.copied = 0
         THEN [st |-> r.st, err |-> r.err, returned |-> TRUE]
         ELSE IgnoreBytes(n - r.copied, r.st)

\* func ignoreBulkMessage(firstLine []byte, source *bufio.Reader) (err error)
ignoreBulkMessage(firstLine, st) ==
    IF Len(firstLine) < 2 \/ firstLine[1] # DOLLAR
    THEN [st |-> st, err |-> "ERROR_BAD_BULK_FORMAT"]
    ELSE IF firstLine = ERR_RESPONSE
    THEN [st |-> st, err |-> "nil"]
    ELSE
    LET n == ParseInt(Slice(firstLine, 1, Len(firstLine))) IN
    IF n.err # "nil"
    THEN [st |-> st, err |-> n.err]
    ELSE
    LET body == IgnoreBytes(IntValue(n.length), st) IN
    IF body.returned
    THEN [st |-> body.st, err |-> body.err]
    ELSE
    LET cr == ReadByte(body.st) IN
    IF cr.err # "nil"
    THEN [st |-> cr.st, err |-> cr.err]
    ELSE IF cr.char # CR
    THEN [st |-> cr.st, err |-> "ERROR_BAD_BULK_FORMAT"]
    ELSE
    LET lf == ReadByte(cr.st) IN
    IF lf.err # "nil"
    THEN [st |-> lf.st, err |-> lf.err]
    ELSE IF lf.char # LF
    THEN [st |-> lf.st, err |-> "ERROR_BAD_BULK_FORMAT"]
    ELSE [st |-> lf.st, err |-> "nil"]

\* The loop of IgnoreMultiBulkMessage: n more elements. Each is read as a line,
\* whose first byte is looked at without a look at its length: firstLine[0] on
\* an empty line is an index out of range, a panic.
RECURSIVE IgnoreElements(_, _)
IgnoreElements(n, st) ==
    IF n = 0
    THEN [st |-> st, err |-> "nil", panic |-> FALSE]
    ELSE LET line == ReadLine(st) IN
         IF line.err # "nil"
         THEN [st |-> line.st, err |-> line.err, panic |-> FALSE]
         ELSE IF line.line = <<>>
         THEN [st |-> line.st, err |-> "nil", panic |-> TRUE]
         ELSE IF line.line[1] = COLON
         THEN IgnoreElements(n - 1, line.st)
         ELSE LET element == ignoreBulkMessage(line.line, line.st) IN
              IF element.err # "nil"
              THEN [st |-> element.st, err |-> element.err, panic |-> FALSE]
              ELSE IgnoreElements(n - 1, element.st)

\* func IgnoreMultiBulkMessage(firstLine []byte, source *bufio.Reader) (err error)
IgnoreMultiBulkMessage(firstLine, st) ==
    IF Len(firstLine) < 2 \/ firstLine[1] # STAR
    THEN [st |-> st, err |-> "ERROR_BAD_BULK_FORMAT", panic |-> FALSE]
    ELSE
    LET n == ParseInt(Slice(firstLine, 1, Len(firstLine))) IN
    IF n.err # "nil"
    THEN [st |-> st, err |-> n.err, panic |-> FALSE]
    ELSE IgnoreElements(IntValue(n.length), st)

\* func copyBulkMessage(firstLine []byte, destination *bufio.Writer,
\*                      source *bufio.Reader) (err error)
copyBulkMessage(firstLine, st) ==
    IF Len(firstLine) < 2 \/ firstLine[1] # DOLLAR
    THEN [st |-> st, err |-> "ERROR_BAD_BULK_FORMAT"]
    ELSE IF firstLine = ERR_RESPONSE
    THEN writeLine(ERR_RESPONSE, st)
    ELSE
    LET n == ParseInt(Slice(firstLine, 1, Len(firstLine))) IN
    IF n.err # "nil"
    THEN [st |-> st, err |-> n.err]
    ELSE
    LET head == writeLine(firstLine, st) IN
    IF head.err # "nil"
    THEN head
    ELSE
    LET body == CopyN(head.st, IntValue(n.length)) IN
    IF body.err # "nil"
    THEN [st |-> body.st, err |-> body.err]
    ELSE
    LET cr == ReadByte(body.st) IN
    IF cr.err # "nil"
    THEN [st |-> cr.st, err |-> cr.err]
    ELSE IF cr.char # CR
    THEN [st |-> cr.st, err |-> "ERROR_BAD_BULK_FORMAT"]
    ELSE
    LET lf == ReadByte(cr.st) IN
    IF lf.err # "nil"
    THEN [st |-> lf.st, err |-> lf.err]
    ELSE IF lf.char # LF
    THEN [st |-> lf.st, err |-> "ERROR_BAD_BULK_FORMAT"]
    ELSE Write(lf.st, REDIS_NEWLINE)

\* The loop of CopyMultiBulkMessage: n more elements, each read as a line and
\* handed to copyBulkMessage.
RECURSIVE CopyElements(_, _)
CopyElements(n, st) ==
    IF n = 0
    THEN [st |-> st, err |-> "nil"]
    ELSE LET line == ReadLine(st) IN
         IF line.err # "nil"
         THEN [st |-> line.st, err |-> line.err]
         ELSE LET element == copyBulkMessage(line.line, line.st) IN
              IF element.err # "nil"
              THEN element
              ELSE CopyElements(n - 1, element.st)

\* CopyMultiBulkMessage returning after its loop, without the Flush.
CopyMultiBulkMessageNoFlush(firstLine, st) ==
    IF Len(firstLine) < 2 \/ firstLine[1] # STAR
    THEN [st |-> st, err |-> "ERROR_BAD_BULK_FORMAT"]
    ELSE
    LET n == ParseInt(Slice(firstLine, 1, Len(firstLine))) IN
    IF n.err # "nil"
    THEN [st |-> st, err |-> n.err]
    ELSE
    LET head == writeLine(firstLine, st) IN
    IF head.err # "nil"
    THEN head
    ELSE CopyElements(IntValue(n.length), head.st)

\* func CopyMultiBulkMessage(firstLine []byte, destination *bufio.Writer,
\*                           source *bufio.Reader) (err error)
CopyMultiBulkMessage(firstLine, st) ==
    IF Len(firstLine) < 2 \/ firstLine[1] # STAR
    THEN [st |-> st, err |-> "ERROR_BAD_BULK_FORMAT"]
    ELSE
    LET n == ParseInt(Slice(firstLine, 1, Len(firstLine))) IN
    IF n.err # "nil"
    THEN [st |-> st, err |-> n.err]
    ELSE
    LET head == writeLine(firstLine, st) IN
    IF head.err # "nil"
    THEN head
    ELSE
    LET elements == CopyElements(IntValue(n.length), head.st) IN
    IF elements.err # "nil"
    THEN elements
    ELSE Flush(elements.st)

\* func CopyServerResponse(remoteBuffer *bufio.Reader, localBuffer *bufio.Writer)
\* The result of its own Flush is dropped.
CopyServerResponse(st) ==
    LET first == ReadLine(st)
        firstLine == first.line
    IN
    IF first.err # "nil"
    THEN [st |-> first.st, err |-> first.err]
    ELSE IF Len(firstLine) < 2
    THEN [st |-> first.st, err |-> "ERROR_BAD_BULK_FORMAT"]
    ELSE
    LET copied ==
            IF firstLine[1] = DOLLAR
            THEN copyBulkMessage(firstLine, first.st)
            ELSE IF firstLine[1] = STAR /\ firstLine[2] # MINUS
            THEN CopyMultiBulkMessage(firstLine, first.st)
            ELSE writeLine(firstLine, first.st)
    IN
    IF copied.err # "nil"
    THEN copied
    ELSE [st |-> Flush(copied.st).st, err |-> "nil"]

\* ---- the replies the copy functions are run on ----

\* The elements of a multibulk reply: an integer line, a bulk, a bulk whose
\* payload holds a CRLF, and the null bulk.
IntegerLine == <<COLON, ZERO + 1>> \o REDIS_NEWLINE
BulkElements ==
    {BulkElement(1, <<LOWER_A>>), BulkElement(2, REDIS_NEWLINE),
     ERR_RESPONSE \o REDIS_NEWLINE}
Elements == {IntegerLine} \cup BulkElements

RECURSIVE Concat(_)
Concat(seqs) == IF seqs = <<>> THEN <<>> ELSE Head(seqs) \o Concat(Tail(seqs))

\* *<count>\r\n and the elements, the count being theirs or not.
MultiBulk(count, elements) == MultiBulkHeader(count) \o Concat(elements)
MultiBulkReplies ==
    {MultiBulk(count, es) :
        count \in 0..MaxElems, es \in SeqsUpTo(Elements, MaxElems)}

\* Status, error and integer lines, a bulk, the null bulk and the null multibulk.
\* EmptyStatus is +\r\n, the status reply whose string is empty.
PLUS == 43
EmptyStatus == <<PLUS>> \o REDIS_NEWLINE
SingleReplies ==
    {<<PLUS, UPPER_G>> \o REDIS_NEWLINE, <<MINUS, UPPER_G>> \o REDIS_NEWLINE,
     EmptyStatus, IntegerLine, <<STAR, MINUS, ZERO + 1>> \o REDIS_NEWLINE}
        \cup BulkElements

\* A source holds a reply, whole or cut (its end is the end of input), or a reply
\* and what follows it (the next reply, or other bytes), or arbitrary bytes.
NextReply == <<PLUS, UPPER_G>> \o REDIS_NEWLINE
FollowingBytes == {NextReply, <<UPPER_G>>, <<LF>>}
\* Multibulks with an element line that is empty, a bare CRLF.
EmptyLineReplies ==
    {MultiBulk(1, <<REDIS_NEWLINE>>),
     MultiBulk(2, <<BulkElement(1, <<LOWER_A>>), REDIS_NEWLINE>>),
     MultiBulk(2, <<IntegerLine, REDIS_NEWLINE>>)}
CopySources ==
    UNION {Prefixes(r) : r \in SingleReplies \cup MultiBulkReplies}
        \cup EmptyLineReplies
        \cup {r \o t : r \in SingleReplies \cup MultiBulkReplies,
                        t \in FollowingBytes}
        \cup ShortBuffers

\* ---- the calls ----

NoCopy ==
    [op |-> "none", err |-> "nil", panic |-> FALSE, firstLine |-> <<>>,
     pre |-> [src |-> <<>>, dst |-> <<>>, flushedAt |-> <<>>, ok |-> TRUE,
              werr |-> FALSE]]

BecomesCopy(st) ==
    /\ source' = st.src
    /\ dest' = st.dst
    /\ flushedAt' = st.flushedAt
    /\ destErr' = st.werr
    /\ UNCHANGED destOk

CallCopyServerResponse ==
    /\ copyCalls < MaxCopies
    /\ ~copyOut.panic
    /\ \E r \in {CopyServerResponse(CurCopy)} :
        /\ BecomesCopy(r.st)
        /\ copyOut' = [op |-> "CopyServerResponse", err |-> r.err,
                       panic |-> FALSE,
                       firstLine |-> ReadLine(CurCopy).line, pre |-> CurCopy]
    /\ copyCalls' = copyCalls + 1
    /\ UNCHANGED <<connVars, scanVars, parseVars>>

\* CopyMultiBulkMessage, called as CopyServerResponse calls it: with the line its
\* caller has read off the source.
CallCopyMultiBulkMessage ==
    /\ copyCalls < MaxCopies
    /\ ~copyOut.panic
    /\ \E first \in {ReadLine(CurCopy)} :
        /\ first.err = "nil"
        /\ \E r \in {CopyMultiBulkMessage(first.line, first.st)} :
            /\ BecomesCopy(r.st)
            /\ copyOut' = [op |-> "CopyMultiBulkMessage", err |-> r.err,
                           panic |-> FALSE,
                           firstLine |-> first.line, pre |-> CurCopy]
    /\ copyCalls' = copyCalls + 1
    /\ UNCHANGED <<connVars, scanVars, parseVars>>

\* IgnoreMultiBulkMessage, called with the line its caller has read off the
\* source. A panic ends the goroutine: nothing is called after it.
CallIgnoreMultiBulkMessage ==
    /\ copyCalls < MaxCopies
    /\ ~copyOut.panic
    /\ \E first \in {ReadLine(CurCopy)} :
        /\ first.err = "nil"
        /\ \E r \in {IgnoreMultiBulkMessage(first.line, first.st)} :
            /\ BecomesCopy(r.st)
            /\ copyOut' = [op |-> "IgnoreMultiBulkMessage", err |-> r.err,
                           panic |-> r.panic,
                           firstLine |-> first.line, pre |-> CurCopy]
    /\ copyCalls' = copyCalls + 1
    /\ UNCHANGED <<connVars, scanVars, parseVars>>

-----------------------------------------------------------------------------
(* The parts of the state a specification does not use stay as they start. *)
(* In the actions a call's result is bound with \E r \in {...}, which the    *)
(* model checker evaluates once.                                           *)

ScanIdle ==
    /\ buffered = <<>>
    /\ scanCalls = 0
    /\ scanOut = NoScan
    /\ upstream = <<>>
    /\ sourceReads = 0
CopyIdle ==
    /\ source = <<>>
    /\ dest = <<>>
    /\ flushedAt = <<>>
    /\ destOk = TRUE
    /\ destErr = FALSE
    /\ copyCalls = 0
    /\ copyOut = NoCopy

ParseIdle == parseIn = <<>> /\ parseOut = NoParse

Init == NewConnection /\ ScanIdle /\ CopyIdle /\ ParseIdle

Next ==
    \/ Disconnect
    \/ IsConnected
    \/ ReconnectIfNecessary
    \/ SelectDatabase
    \/ CheckConnection

Spec == Init /\ [][Next]_vars

\* GetCommand on every buffer of ScanInputs.
InitScan ==
    /\ ConnIdle
    /\ CopyIdle
    /\ ParseIdle
    /\ buffered \in ScanInputs
    /\ scanCalls = 0
    /\ scanOut = NoScan
    /\ upstream \in Upstreams
    /\ sourceReads = 0

NextScan == CallGetCommand

SpecScan == InitScan /\ [][NextScan]_vars

\* The copy functions on every source of CopySources, into an empty destination
\* over a writer that works or does not.
InitCopy ==
    /\ ConnIdle
    /\ ScanIdle
    /\ ParseIdle
    /\ source \in CopySources
    /\ dest = <<>>
    /\ flushedAt = <<>>
    /\ destOk \in BOOLEAN
    /\ destErr = FALSE
    /\ copyCalls = 0
    /\ copyOut = NoCopy

NextCopy ==
    \/ CallCopyServerResponse
    \/ CallCopyMultiBulkMessage
    \/ CallIgnoreMultiBulkMessage

SpecCopy == InitCopy /\ [][NextCopy]_vars

\* ParseInt on every input of ParseInputs.
InitParse ==
    /\ ConnIdle
    /\ ScanIdle
    /\ CopyIdle
    /\ parseIn \in ParseInputs
    /\ parseOut = NoParse

NextParse == CallParseInt

SpecParse == InitParse /\ [][NextParse]_vars

-----------------------------------------------------------------------------
(* Properties of the Connection, checked under Spec *)

\* The last call was a SelectDatabase on a connected Connection whose select was
\* written and whose reply was a read error, a prefix, or a line other than +OK.
SelectAnsweredBadly ==
    /\ lastCall.op = "SelectDatabase"
    /\ lastCall.pre.connection # Nil
    /\ lastCall.wr = "ok"
    /\ (lastCall.reply.err \/ lastCall.reply.isPrefix
            \/ lastCall.reply.line # OK_RESPONSE)

\* C1, as the specification states it: after a SelectDatabase whose reply is not
\* the literal +OK, an error is returned and DatabaseId is what it was before
\* the call.
C1_FailedSelectKeepsDatabaseId ==
    SelectAnsweredBadly =>
        lastCall.ret = "error" /\ DatabaseId = lastCall.pre.DatabaseId

\* C1, as the code has it: after a SelectDatabase whose reply is not the literal
\* +OK, an error is returned, the Connection is disconnected and DatabaseId is
\* the default 0, whatever it was before; it is never the requested id unless
\* that is 0.
C1_FailedSelectResetsDatabaseId ==
    SelectAnsweredBadly =>
        /\ lastCall.ret = "error"
        /\ connection = Nil
        /\ DatabaseId = DefaultDatabase

\* A failed select on a Connection that had a non-default database selected.
C1_Witness ==
    /\ SelectAnsweredBadly
    /\ lastCall.pre.DatabaseId # DefaultDatabase
    /\ lastCall.arg # lastCall.pre.DatabaseId
    /\ lastCall.ret = "error"

\* C2: whenever ReconnectIfNecessary or SelectDatabase returns an error, the
\* Connection has no socket, no Reader and no Writer when the call returns.
C2_ErrorLeavesDisconnected ==
    (lastCall.op \in {"ReconnectIfNecessary", "SelectDatabase"}
        /\ lastCall.ret = "error")
    => (connection = Nil /\ Reader = Nil /\ Writer = Nil)

\* C3: between calls, the Reader and the Writer are both present exactly when
\* the socket is, and they wrap that socket.
C3_ReaderWriterIffSocket ==
    /\ connection # Nil => (Reader = connection /\ Writer = connection)
    /\ connection = Nil => (Reader = Nil /\ Writer = Nil)

\* A Connection that was connected and has been torn down again.
C3_Witness ==
    /\ connection = Nil
    /\ Reader = Nil
    /\ Writer = Nil
    /\ lastCall.pre.connection # Nil
    /\ lastCall.pre.Reader # Nil

\* C10: a Disconnect that directly follows a Disconnect changes nothing: the
\* Connection stays without socket, Reader and Writer and with DatabaseId 0, no
\* socket is closed and no disconnect metric is emitted.
C10_SecondDisconnectIsNoOp ==
    (lastCall.op = "Disconnect" /\ lastCall.prevOp = "Disconnect")
    => /\ Cur = lastCall.pre
       /\ connection = Nil
       /\ Reader = Nil
       /\ Writer = Nil
       /\ DatabaseId = DefaultDatabase

\* Two Disconnects in a row, after a socket had been dialed and closed.
C10_Witness ==
    /\ lastCall.op = "Disconnect"
    /\ lastCall.prevOp = "Disconnect"
    /\ closes > 0
    /\ metric = closes

\* The reply was read whole and without error, and is the given line.
AnsweredWith(reply, line) ==
    ~reply.err /\ ~reply.isPrefix /\ reply.line = line

\* C11: IsConnected returns false exactly when there is no socket or the probe
\* read fails with an error that is no timeout (a clean close by the peer is
\* one); it returns true when the read times out and when it returns bytes, and
\* it leaves the Connection as it found it, connected in the latter case.
C11_IsConnectedVerdict ==
    lastCall.op = "IsConnected" =>
        /\ lastCall.ret \in {"true", "false"}
        /\ lastCall.ret = "false"
            <=> (lastCall.pre.connection = Nil \/ lastCall.probe = "eof")
        /\ (lastCall.pre.connection # Nil /\ lastCall.probe \in {"timeout", "data"})
            => lastCall.ret = "true"
        /\ Cur = lastCall.pre
        /\ lastCall.probe = "data" => (connection # Nil /\ connection \in open)

\* The probe read bytes off a connected socket and IsConnected said true.
C11_Witness ==
    /\ lastCall.op = "IsConnected"
    /\ lastCall.probe = "data"
    /\ lastCall.ret = "true"
    /\ connection # Nil
    /\ DatabaseId # DefaultDatabase

\* C12: while the Connection has a socket, DatabaseId is the id of the last
\* SelectDatabase on that socket that the server answered with +OK, or 0 if
\* none was acknowledged since the socket was dialed; and a SelectDatabase
\* answered with +OK returns no error.
C12_DatabaseIdIsAcknowledged ==
    /\ connection # Nil =>
            (acknowledged.socket = connection /\ DatabaseId = acknowledged.id)
    /\ (lastCall.op = "SelectDatabase" /\ lastCall.pre.connection # Nil
            /\ lastCall.wr = "ok" /\ AnsweredWith(lastCall.reply, OK_RESPONSE))
        => lastCall.ret = "nil"

\* A select whose write failed, on a socket on which another database had been
\* acknowledged: the socket is kept and so is the acknowledged id.
C12_Witness ==
    /\ lastCall.op = "SelectDatabase"
    /\ lastCall.wr = "err"
    /\ connection # Nil
    /\ DatabaseId # DefaultDatabase
    /\ lastCall.arg # DatabaseId
    /\ acknowledged = [socket |-> connection, id |-> DatabaseId]

\* C13: whenever the Connection has no socket, DatabaseId is the default 0.
C13_DisconnectedHasDefaultDatabase ==
    connection = Nil => DatabaseId = DefaultDatabase

\* A Connection with a database selected was torn down by a failed ping.
C13_Witness ==
    /\ connection = Nil
    /\ DatabaseId = DefaultDatabase
    /\ lastCall.op = "CheckConnection"
    /\ lastCall.pre.connection # Nil
    /\ lastCall.pre.DatabaseId # DefaultDatabase

\* The last call was a ReconnectIfNecessary whose probe found the socket usable.
ReconnectFoundUsable ==
    /\ lastCall.op = "ReconnectIfNecessary"
    /\ lastCall.pre.connection # Nil
    /\ lastCall.probe \in {"timeout", "zero", "data"}

\* C14: when the probe finds the socket usable, ReconnectIfNecessary returns no
\* error, dials nothing, sends nothing, closes nothing, and leaves the socket,
\* the Reader, the Writer and DatabaseId as they were.
C14_UsableSocketIsKept ==
    ReconnectFoundUsable =>
        /\ lastCall.ret = "nil"
        /\ lastCall.dial = "none"
        /\ lastCall.wr = "none"
        /\ lastCall.sent = <<>>
        /\ Cur = lastCall.pre

\* ReconnectIfNecessary found a socket with a database selected usable.
C14_Witness ==
    /\ ReconnectFoundUsable
    /\ DatabaseId # DefaultDatabase
    /\ connection = lastCall.pre.connection
    /\ lastCall.ret = "nil"

\* The last call was a ReconnectIfNecessary whose probe found no usable socket
\* and that returned no error.
ReconnectedAfresh ==
    /\ lastCall.op = "ReconnectIfNecessary"
    /\ lastCall.probe \in {"none", "eof"}
    /\ lastCall.ret = "nil"

\* C15: when ReconnectIfNecessary returns no error after the probe found no
\* usable socket, the Connection holds a socket dialed by this call, with Reader
\* and Writer on it and DatabaseId 0; the socket it held before is closed; with a
\* password configured exactly one command went out, AUTH <password> or
\* AUTH <user> <password>, and it was answered with +OK; with none, nothing
\* was written.
C15_ReconnectedIsReady ==
    ReconnectedAfresh =>
        /\ lastCall.dial = "ok"
        /\ connection # Nil
        /\ connection \notin 1..lastCall.pre.dials
        /\ connection \in open
        /\ lastCall.pre.connection \notin open
        /\ Reader = connection
        /\ Writer = connection
        /\ DatabaseId = DefaultDatabase
        /\ authPassword # "" =>
            /\ lastCall.wr = "ok"
            /\ lastCall.sent =
                    <<IF authUser # "" THEN <<"AUTH", authUser, authPassword>>
                      ELSE <<"AUTH", authPassword>>>>
            /\ AnsweredWith(lastCall.reply, OK_RESPONSE)
        /\ authPassword = "" =>
            /\ lastCall.wr = "none"
            /\ lastCall.sent = <<>>
            /\ lastCall.reply = NoReply

\* A socket that the peer had closed was replaced and authenticated with user
\* and password.
C15_Witness ==
    /\ ReconnectedAfresh
    /\ lastCall.probe = "eof"
    /\ lastCall.pre.DatabaseId # DefaultDatabase
    /\ authUser # ""
    /\ authPassword # ""
    /\ lastCall.sent = <<<<"AUTH", authUser, authPassword>>>>
    /\ connection # Nil

\* C16: CheckConnection returns true exactly when the Connection has a socket,
\* the short PING was written and flushed without error, and the reply line was
\* read whole and without error and is +PONG; the Connection is then as it was.
\* Otherwise it returns false and the Connection has no socket, Reader or Writer.
C16_CheckConnectionVerdict ==
    lastCall.op = "CheckConnection" =>
        LET ponged ==
                /\ lastCall.pre.connection # Nil
                /\ lastCall.wr = "ok"
                /\ lastCall.sent = <<SHORT_PING_COMMAND>>
                /\ AnsweredWith(lastCall.reply, PONG_RESPONSE)
        IN /\ lastCall.ret \in {"true", "false"}
           /\ lastCall.ret = "true" <=> ponged
           /\ lastCall.ret = "true" => (Cur = lastCall.pre /\ connection # Nil)
           /\ lastCall.ret = "false" =>
                /\ connection = Nil
                /\ Reader = Nil
                /\ Writer = Nil
                /\ lastCall.pre.connection \notin open

\* A connected Connection with a database selected got +OK for its PING: false,
\* and the socket is closed.
C16_Witness ==
    /\ lastCall.op = "CheckConnection"
    /\ lastCall.pre.connection # Nil
    /\ lastCall.pre.DatabaseId # DefaultDatabase
    /\ lastCall.wr = "ok"
    /\ AnsweredWith(lastCall.reply, OK_RESPONSE)
    /\ lastCall.ret = "false"
    /\ connection = Nil
    /\ closes = lastCall.pre.closes + 1

\* C23: after any sequence of calls at most one socket dialed by the Connection
\* is open, and an open socket is the one the Connection references: a socket
\* is closed before its reference is cleared or replaced by a new dial. Every
\* dialed socket was closed once or is the open one.
C23_OnlyReferencedSocketOpen ==
    /\ Cardinality(open) <= 1
    /\ \A sock \in open : sock = connection
    /\ connection # Nil => connection \in open
    /\ dials = closes + Cardinality(open)
    /\ lastCall.pre.connection # connection => lastCall.pre.connection \notin open

\* The Connection is on its second socket, the first one having been closed.
C23_Witness ==
    /\ dials = 2
    /\ closes = 1
    /\ connection = 2
    /\ open = {2}
    /\ lastCall.op = "ReconnectIfNecessary"
    /\ lastCall.pre.connection = 1

-----------------------------------------------------------------------------
(* Properties of GetCommand, checked under SpecScan *)

\* ASCII lowercasing as the specification means it: 'A'..'Z' (65..90) become
\* 'a'..'z', every other byte stays.
AsciiLower(bytes) ==
    [i \in 1..Len(bytes) |->
        IF bytes[i] \in 65..90 THEN bytes[i] + 32 ELSE bytes[i]]
OnlyLetters(bytes) ==
    \A i \in 1..Len(bytes) : bytes[i] \in (65..90) \cup (97..122)
OnlyDigits(bytes) == \A i \in 1..Len(bytes) : bytes[i] \in 48..57

StartsWith(s, prefix) ==
    Len(s) >= Len(prefix) /\ SubSeq(s, 1, Len(prefix)) = prefix

Scanned1 == scanCalls > 0

CommandShort(input) ==
    \E n \in DeclaredLengths :
        /\ StartsWith(input, BulkHeader(n))
        /\ Len(input) - Len(BulkHeader(n)) < n + 2

\* The buffer is the complete command element for c, the argument's header
\* $<m>\r\n, and fewer than m + 2 bytes.
ArgumentShort(input, c) ==
    \E m \in DeclaredLengths :
        LET before == BulkElement(Len(c), c) \o BulkHeader(m) IN
        /\ StartsWith(input, before)
        /\ Len(input) - Len(before) < m + 2

FirstLine(input) ==
    IF IndexByte(input, CR) = -1 THEN input
    ELSE Slice(input, 0, IndexByte(input, CR))

\* '*' followed by a non-negative decimal count.
IsMultiBulkHeaderLine(line) ==
    /\ Len(line) >= 2
    /\ line[1] = STAR
    /\ OnlyDigits(SubSeq(line, 2, Len(line)))

C9_GetCommandNeverPanics == ~scanOut.out.panic

\* C18: GetCommand does not consume: whatever it returns, the reader holds as
\* many buffered bytes after the call as before, from the same read position, no
\* read was made on the reader's source, and the source holds what it held.
C18_GetCommandConsumesNothing ==
    Scanned1 =>
        /\ Len(buffered) = Len(scanOut.input)
        /\ scanOut.out.contents = buffered
        /\ sourceReads = scanOut.reads
        /\ sourceReads = 0
        /\ upstream = scanOut.upstream

\* A second GetCommand found the request of the first still buffered, while the
\* source had more bytes to give.
C18_Witness ==
    /\ scanCalls = 2
    /\ upstream # <<>>
    /\ sourceReads = 0
    /\ Len(buffered) = Len(BulkElement(1, <<UPPER_G>>) \o BulkElement(1, <<UPPER_G>>))
    /\ scanOut.input = buffered
    /\ scanOut.out.err = "nil"
    /\ scanOut.out.firstArgument = Bytes(<<UPPER_G>>)

\* C19: whenever GetCommand returns an error, the bytes of the reader's buffer
\* are what they were before the call.
C19_ErrorLeavesBufferUntouched ==
    (Scanned1 /\ ~scanOut.out.panic /\ scanOut.out.err # "nil")
    => buffered = scanOut.input

\* The last GetCommand returned a command and no error.
ScanSucceeded ==
    Scanned1 /\ ~scanOut.out.panic /\ scanOut.out.err = "nil"

\* The bytes of the buffer the call found where the command it returned lies:
\* after the first line and its CRLF.
CommandBytesFound ==
    LET start == IndexByte(scanOut.input, CR) + 2
    IN Slice(scanOut.input, start, start + Len(scanOut.out.command.bytes))

\* C21: whenever GetCommand succeeds, the command it returns is the command of
\* the request with 'A'..'Z' replaced by 'a'..'z' and every other byte (digit,
\* punctuation, lowercase letter) as it was; and a second GetCommand on the same
\* buffer returns the command the first returned.
C21_CommandLowercased ==
    /\ \A c \in Commands :
        (ScanSucceeded /\ scanCalls = 1
            /\ StartsWith(scanOut.input, BulkElement(Len(c), c)))
        => scanOut.out.command = Bytes(AsciiLower(c))
    /\ (ScanSucceeded /\ scanCalls = 2)
        => scanOut.out.command.bytes = CommandBytesFound

-----------------------------------------------------------------------------
(* Properties of the copy functions, checked under SpecCopy *)

\* The multibulk replies whose declared count is the number of their elements.
CountedMultiBulkReplies ==
    {MultiBulk(Len(es), es) : es \in SeqsUpTo(Elements, MaxElems)}

\* C5: on a multibulk reply whose count matches its elements, integer lines and
\* bulk messages in any mix, CopyMultiBulkMessage returns no error and writes the
\* header line and every element to the destination as they came.
C5_MixedMultiBulkCopied ==
    (copyOut.op = "CopyMultiBulkMessage"
        /\ copyOut.pre.ok /\ ~copyOut.pre.werr
        /\ copyOut.pre.src \in CountedMultiBulkReplies)
    => /\ copyOut.err = "nil"
       /\ dest = copyOut.pre.dst \o copyOut.pre.src

\* The last call was a CopyServerResponse that forwarded a reply.
Forwarded == copyOut.op = "CopyServerResponse" /\ copyOut.err = "nil"
ForwardedMultiBulk ==
    Forwarded /\ copyOut.firstLine[1] = STAR /\ copyOut.firstLine[2] # MINUS

\* The Flush calls the last copy call made, as indices of flushedAt.
FlushesOfCall == (Len(copyOut.pre.flushedAt) + 1)..Len(flushedAt)

\* C6, as the specification states it: a CopyServerResponse that forwards a reply
\* flushes the destination exactly once, after all bytes of the reply are written.
C6_FlushedExactlyOnce ==
    Forwarded =>
        /\ Cardinality(FlushesOfCall) = 1
        /\ \A i \in FlushesOfCall : flushedAt[i] = Len(dest)

\* C6, as the code has it: a CopyServerResponse that forwards a reply flushes the
\* destination after all bytes of the reply are written and writes nothing after
\* a flush; it calls Flush once for a single line, a bulk or a null bulk, and
\* twice for a multibulk (in CopyMultiBulkMessage and again on its own return).
C6_FlushedAfterReply ==
    Forwarded =>
        /\ Cardinality(FlushesOfCall) = IF ForwardedMultiBulk THEN 2 ELSE 1
        /\ \A i \in FlushesOfCall : flushedAt[i] = Len(dest)

\* A multibulk of two bulks was forwarded with two flushes, and a bulk with one.
C6_Witness ==
    /\ ForwardedMultiBulk
    /\ copyOut.pre.src = MultiBulk(2, <<BulkElement(1, <<LOWER_A>>),
                                        BulkElement(1, <<LOWER_A>>)>>)
    /\ dest = copyOut.pre.dst \o copyOut.pre.src
    /\ Cardinality(FlushesOfCall) = 2

\* The replies C17 is about: a status, error or integer line, a bulk, the null
\* bulk, the null multibulk, and the multibulks of bulks (null bulks among them)
\* whose count is the number of their elements.
WellFormedReplies ==
    SingleReplies
        \cup {MultiBulk(Len(es), es) : es \in SeqsUpTo(BulkElements, MaxElems)}

\* C17: with a well-formed reply at the head of the source, followed by nothing
\* or by any further bytes, and a destination that takes the bytes,
\* CopyServerResponse returns no error, appends exactly the bytes of that reply
\* to the destination, and leaves exactly what followed it in the source.
C17_WellFormedReplyForwarded ==
    \A r \in WellFormedReplies, t \in FollowingBytes \cup {<<>>} :
        (copyOut.op = "CopyServerResponse"
            /\ copyOut.pre.ok /\ ~copyOut.pre.werr
            /\ copyOut.pre.src = r \o t)
        => /\ copyOut.err = "nil"
           /\ dest = copyOut.pre.dst \o r
           /\ source = t

\* C22: whatever the header line and the source hold, an element line that is
\* empty included, IgnoreMultiBulkMessage returns nil or an error; it does not
\* panic.
C22_IgnoreMultiBulkNeverPanics ==
    copyOut.op = "IgnoreMultiBulkMessage" => ~copyOut.panic

-----------------------------------------------------------------------------
(* Properties of ParseInt, checked under SpecParse *)

\* The number a digit string denotes, on limbs enough for every string of
\* ParseInputs, so that nothing is carried out.
DecimalValue(digits) ==
    ParseIntFrom(digits, 1, ZeroInt \o <<0, 0>>).length

\* The int x is the number a digit string denotes.
IsDecimalValue(x, digits) ==
    /\ x[INT_LIMBS] < LIMB \div 2
    /\ x \o <<0, 0>> = DecimalValue(digits)

\* C20: for a byte string made of ASCII digits only ParseInt returns its decimal
\* value and no error ("0" gives 0, "123" gives 123); for a byte string with a
\* byte outside '0'..'9' it returns the invalid-integer error; for the empty
\* string it returns 0 and no error.
C20_ParseIntDecimalValue ==
    parseOut.called =>
        /\ OnlyDigits(parseIn) =>
                (parseOut.err = "nil" /\ IsDecimalValue(parseOut.length, parseIn))
        /\ ~OnlyDigits(parseIn) => parseOut.err = "ERROR_INVALID_INT"
        /\ parseIn = <<>> => (parseOut.err = "nil" /\ parseOut.length = ZeroInt)
        /\ parseIn = Digits(<<0>>) => IntValue(parseOut.length) = 0
        /\ parseIn = Digits(<<1, 2, 3>>) => IntValue(parseOut.length) = 123

=============================================================================
